---- MODULE Spec2Model ----
(***************************************************************************)
(* A model of the toki SQL query builder (package toki).                   *)
(*                                                                         *)
(* A Go string is modelled as a sequence of one-character strings, so that *)
(* convertPlaceholders, fmt.Sprintf, strings.Join and strings.HasSuffix    *)
(* are computed character by character as the code computes them.          *)
(* A Builder is a record; every method is an operator from the builder     *)
(* (and the call's inputs) to the builder after the call, and an action    *)
(* of the specification applies it.                                        *)
(***************************************************************************)
EXTENDS Integers, Sequences, FiniteSets, TLC

VARIABLES
    b,          \* the Builder: parts, args, argIndex, table, tx
    pool,       \* content of the strings.Builder kept in b.pool
    rendered,   \* the text returned by the most recent String() call
    stmt,       \* the Stmt returned by the most recent Prepare call
    err,        \* the error returned by the most recent Prepare call
    trace,      \* history: the calls made on the builder so far, with inputs
    conv,       \* result of a direct convertPlaceholders call
    thr,        \* the goroutines that share the builder: position and locals
    heap,       \* the memory of b.args: backing arrays and slice headers
    raw,        \* the RawQuery made by Builder.Raw
    txn,        \* the Transaction made by Begin
    log,        \* the calls received by the database/sql collaborator
    ret         \* the error returned by the most recent executing call

vars == <<b, pool, rendered, stmt, err, trace, conv, thr, heap, raw, txn, log, ret>>

\* the variables of the concurrent and of the executing specifications
others == <<thr, heap, raw, txn, log, ret>>

----------------------------------------------------------------------------
(* Bounds of the model *)

\* builder calls per behaviour
MaxCalls == 3
\* largest counter value a direct convertPlaceholders call starts from
MaxCounter == 11
\* longest query string given to a direct convertPlaceholders call
MaxLen == 3

----------------------------------------------------------------------------
(* String literals of the source and of its tests *)

kwWHERE == <<"W", "H", "E", "R", "E">>
kwAND == <<"A", "N", "D">>
kwOR == <<"O", "R">>
kwRETURNING == <<"R", "E", "T", "U", "R", "N", "I", "N", "G">>
fmtSELECT == <<"S", "E", "L", "E", "C", "T", " ">>
fmtFROM == <<"F", "R", "O", "M", " ">>
fmtORDERBY == <<"O", "R", "D", "E", "R", " ", "B", "Y", " ">>
fmtUPDATE == <<"U", "P", "D", "A", "T", "E", " ">>
fmtSET == <<"S", "E", "T", " ">>
fmtINSERT == <<"I", "N", "S", "E", "R", "T", " ", "I", "N", "T", "O", " ">>
fmtVALUES == <<"V", "A", "L", "U", "E", "S", " ", "(">>
fmtDELETE == <<"D", "E", "L", "E", "T", "E", " ", "F", "R", "O", "M", " ">>
fmtEQ == <<" ", "=", " ">>
fmtEQARG == <<" ", "=", " ", "$">>
sepComma == <<",", " ">>

colStar == <<"*">>
colId == <<"i", "d">>
colName == <<"n", "a", "m", "e">>
colEmail == <<"e", "m", "a", "i", "l">>
colUpdatedAt == <<"u", "p", "d", "a", "t", "e", "d", "_", "a", "t">>
colCount == <<"c", "o", "u", "n", "t">>
colCreatedDesc == <<"c", "r", "e", "a", "t", "e", "d", "_", "a", "t", " ", "D", "E", "S", "C">>
tblUsers == <<"u", "s", "e", "r", "s">>
condId == <<"i", "d", " ", "=", " ", "?">>
condAgeStatus == <<"a", "g", "e", " ", ">", " ", "?", " ", "A", "N", "D", " ", "s", "t", "a", "t", "u", "s", " ", "=", " ", "?">>
condActive == <<"a", "c", "t", "i", "v", "e">>
condIdDigit == <<"i", "d", " ", "=", " ", "?", "1">>
condDollar == <<"x", " ", "=", " ", "$", "1">>
sqlCountPlus == <<"c", "o", "u", "n", "t", " ", "+", " ", "1">>

Digits == <<"0", "1", "2", "3", "4", "5", "6", "7", "8", "9">>

----------------------------------------------------------------------------
(* Values: interface{} arguments.  A plain value is [val |-> v]; a toki.Raw *)
(* value, the one type implementing SQLExpression, is [sql |-> text].       *)

V(v) == [val |-> v]

Raw(s) == [sql |-> s]

IsSQLExpression(v) == "sql" \in DOMAIN v

SQL(v) == v.sql

NoTx == "nil"

----------------------------------------------------------------------------
(* Library functions the builder calls *)

\* fmt.Sprintf("%d", n) for n >= 0
RECURSIVE FormatInt(_)
FormatInt(n) ==
    IF n < 10 THEN <<Digits[n + 1]>>
    ELSE FormatInt(n \div 10) \o <<Digits[(n % 10) + 1]>>

\* strings.Join(elems, sep)
RECURSIVE Join(_, _)
Join(elems, sep) ==
    IF Len(elems) = 0 THEN <<>>
    ELSE IF Len(elems) = 1 THEN elems[1]
    ELSE elems[1] \o sep \o Join(Tail(elems), sep)

\* strings.HasSuffix(s, suffix)
HasSuffix(s, suffix) ==
    /\ Len(s) >= Len(suffix)
    /\ SubSeq(s, Len(s) - Len(suffix) + 1, Len(s)) = suffix

----------------------------------------------------------------------------
(* The Builder *)

\* New(): the zero Builder with a fresh pool
New ==
    [parts |-> <<>>, args |-> <<>>, argIndex |-> 0, table |-> <<>>, tx |-> NoTx]

\* the loop of convertPlaceholders from character i on; yields the text
\* written so far and the counter
RECURSIVE convertLoop(_, _, _, _)
convertLoop(query, i, argIndex, result) ==
    IF i > Len(query) THEN [result |-> result, argIndex |-> argIndex]
    ELSE IF query[i] = "?"
         THEN convertLoop(query, i + 1, argIndex + 1,
                          result \o <<"$">> \o FormatInt(argIndex + 1))
         ELSE convertLoop(query, i + 1, argIndex, Append(result, query[i]))

\* convertPlaceholders on a copy of the builder (a value receiver): the
\* text is numbered, the builder's counter stays
convertPlaceholders_ValueReceiver(argIndex, query) ==
    [result |-> convertLoop(query, 1, argIndex, <<>>).result, argIndex |-> argIndex]

convertPlaceholders(argIndex, query) ==
    convertLoop(query, 1, argIndex, <<>>)

WithTransaction(bb, tx) ==
    [bb EXCEPT !.tx = tx]

\* Select that starts the query over, dropping the fragments already there
Select_Restart(bb, columns) ==
    [bb EXCEPT !.parts = <<fmtSELECT \o Join(columns, sepComma)>>]

Select(bb, columns) ==
    [bb EXCEPT !.parts = Append(@, fmtSELECT \o Join(columns, sepComma))]

From(bb, table) ==
    [bb EXCEPT !.table = table,
               !.parts = Append(@, fmtFROM \o table)]

\* Where that rejects a call whose values do not match its markers
Where_Checked(bb, condition, args) ==
    LET n == Len(bb.parts)
        p == IF n > 0 /\ ~HasSuffix(bb.parts[n], kwWHERE)
             THEN Append(bb.parts, kwWHERE)
             ELSE bb.parts
        r == convertPlaceholders(bb.argIndex, condition)
    IN  IF r.argIndex - bb.argIndex # Len(args) THEN bb
        ELSE [bb EXCEPT !.parts = Append(p, r.result),
                        !.argIndex = r.argIndex,
                        !.args = @ \o args]

Where(bb, condition, args) ==
    LET n == Len(bb.parts)
        p == IF n > 0 /\ ~HasSuffix(bb.parts[n], kwWHERE)
             THEN Append(bb.parts, kwWHERE)
             ELSE bb.parts
        r == convertPlaceholders(bb.argIndex, condition)
    IN  [bb EXCEPT !.parts = Append(p, r.result),
                   !.argIndex = r.argIndex,
                   !.args = @ \o args]

AndWhere(bb, condition, args) ==
    LET r == convertPlaceholders(bb.argIndex, condition)
    IN  [bb EXCEPT !.parts = @ \o <<kwAND, r.result>>,
                   !.argIndex = r.argIndex,
                   !.args = @ \o args]

OrWhere(bb, condition, args) ==
    LET r == convertPlaceholders(bb.argIndex, condition)
    IN  [bb EXCEPT !.parts = @ \o <<kwOR, r.result>>,
                   !.argIndex = r.argIndex,
                   !.args = @ \o args]

OrderBy(bb, columns) ==
    [bb EXCEPT !.parts = Append(@, fmtORDERBY \o Join(columns, sepComma))]

Update(bb, table) ==
    [bb EXCEPT !.parts = Append(@, fmtUPDATE \o table)]

\* SetEntry that puts the value in front of the argument list
SetEntry_Prepend(st, col, val) ==
    IF IsSQLExpression(val)
    THEN [st EXCEPT !.sets = Append(@, col \o fmtEQ \o SQL(val))]
    ELSE [sets |-> Append(st.sets, col \o fmtEQARG \o FormatInt(st.argIndex + 1)),
          argIndex |-> st.argIndex + 1,
          args |-> <<val>> \o st.args]

\* SetEntry that increments the counter before it looks at the value
SetEntry_RawCounts(st, col, val) ==
    IF IsSQLExpression(val)
    THEN [st EXCEPT !.sets = Append(@, col \o fmtEQ \o SQL(val)),
                    !.argIndex = @ + 1]
    ELSE [sets |-> Append(st.sets, col \o fmtEQARG \o FormatInt(st.argIndex + 1)),
          argIndex |-> st.argIndex + 1,
          args |-> Append(st.args, val)]

\* one iteration of Set's range loop, for the entry (col, val)
SetEntry(st, col, val) ==
    IF IsSQLExpression(val)
    THEN [st EXCEPT !.sets = Append(@, col \o fmtEQ \o SQL(val))]
    ELSE [sets |-> Append(st.sets, col \o fmtEQARG \o FormatInt(st.argIndex + 1)),
          argIndex |-> st.argIndex + 1,
          args |-> Append(st.args, val)]

\* Set's range loop over the map, visiting the keys in the order `order`
\* (Go leaves a map's iteration order unspecified)
RECURSIVE SetLoop(_, _, _, _)
SetLoop(updates, order, i, st) ==
    IF i > Len(order) THEN st
    ELSE SetLoop(updates, order, i + 1, SetEntry(st, order[i], updates[order[i]]))

Set(bb, updates, order) ==
    LET st == SetLoop(updates, order, 1,
                      [sets |-> <<>>, argIndex |-> bb.argIndex, args |-> bb.args])
    IN  [bb EXCEPT !.parts = Append(@, fmtSET \o Join(st.sets, sepComma)),
                   !.argIndex = st.argIndex,
                   !.args = st.args]

Insert(bb, table, columns) ==
    [bb EXCEPT !.parts = Append(@, fmtINSERT \o table \o <<" ", "(">>
                                     \o Join(columns, sepComma) \o <<")">>)]

\* ValuesPlaceholders that numbers a placeholder before it increments
ValuesPlaceholders_NumberFirst(argIndex, n) ==
    [i \in 1..n |-> <<"$">> \o FormatInt(argIndex + i - 1)]

\* the placeholders Values generates for n values from counter argIndex
ValuesPlaceholders(argIndex, n) ==
    [i \in 1..n |-> <<"$">> \o FormatInt(argIndex + i)]

\* Values that counts in a local variable and never stores the counter
Values_LocalCounter(bb, values) ==
    LET n == Len(values)
    IN  [bb EXCEPT !.parts = Append(@, fmtVALUES
                                 \o Join(ValuesPlaceholders(bb.argIndex, n), sepComma)
                                 \o <<")">>),
                   !.args = @ \o values]

\* Values that appends its values before the arguments already there
Values_ArgsFirst(bb, values) ==
    LET n == Len(values)
    IN  [bb EXCEPT !.parts = Append(@, fmtVALUES
                                 \o Join(ValuesPlaceholders(bb.argIndex, n), sepComma)
                                 \o <<")">>),
                   !.argIndex = @ + n,
                   !.args = values \o @]

Values(bb, values) ==
    LET n == Len(values)
    IN  [bb EXCEPT !.parts = Append(@, fmtVALUES
                                 \o Join(ValuesPlaceholders(bb.argIndex, n), sepComma)
                                 \o <<")">>),
                   !.argIndex = @ + n,
                   !.args = @ \o values]

Delete(bb, table) ==
    [bb EXCEPT !.parts = Append(@, fmtDELETE \o table)]

Returning(bb, columns) ==
    IF Len(columns) > 0
    THEN [bb EXCEPT !.parts = @ \o <<kwRETURNING, Join(columns, sepComma)>>]
    ELSE bb

\* String's loop over b.parts from index i on, writing into the buffer sb
RECURSIVE StringLoop(_, _, _)
StringLoop(parts, i, sb) ==
    IF i > Len(parts) THEN sb
    ELSE StringLoop(parts, i + 1,
                    (IF i > 1 THEN Append(sb, " ") ELSE sb) \o parts[i])

\* String(): the content of the buffer sb taken from the pool after the loop
String(bb, sb) ==
    StringLoop(bb.parts, 1, sb)

\* the buffers pool.Get() may return: the pooled one, or a new one from New
PoolGet(p) == {p, <<>>}

\* the buffer goes back to the pool without sb.Reset()
PoolPut_NoReset(sb) == sb

\* the deferred sb.Reset(); b.pool.Put(sb)
PoolPut(sb) == <<>>

\* t.tx: the *sql.Tx of the Transaction that the pointer t names
SqlTx(t) == IF t = "tx1" THEN "sqltx1" ELSE NoTx

\* Prepare(db): the Stmt built from the rendered text
Prepare(bb, sb, db) ==
    [query |-> String(bb, sb), args |-> bb.args, db |-> db,
     tx |-> IF bb.tx # NoTx THEN SqlTx(bb.tx) ELSE NoTx]

----------------------------------------------------------------------------
(* Inputs of the calls *)

\* number of '?' characters of a string
RECURSIVE CountMarks(_)
CountMarks(s) ==
    IF Len(s) = 0 THEN 0
    ELSE (IF Head(s) = "?" THEN 1 ELSE 0) + CountMarks(Tail(s))

\* condition strings with the values given with them: as many values as
\* markers, and one value too few or too many
WhereInputs ==
    { [cond |-> condId, args |-> <<V("1")>>],
      [cond |-> condAgeStatus, args |-> <<V("18"), V("active")>>],
      [cond |-> condActive, args |-> <<>>],
      [cond |-> condIdDigit, args |-> <<V("7")>>],
      [cond |-> condDollar, args |-> <<>>],
      [cond |-> condId, args |-> <<>>],
      [cond |-> condActive, args |-> <<V("1")>>] }

AndWhereInputs ==
    { [cond |-> condId, args |-> <<V("2")>>],
      [cond |-> condId, args |-> <<V("2"), V("3")>>] }

OrWhereInputs ==
    { [cond |-> condId, args |-> <<V("4")>>],
      [cond |-> condAgeStatus, args |-> <<V("5")>>] }

ColumnLists == { <<colStar>>, <<colId, colName>> }

ReturningLists == { <<>>, <<colId>> }

ValueLists ==
    { <<V("a"), V("b")>>,
      <<V("p"), V("q"), V("r"), V("s"), V("t")>> }

\* the maps given to Set, as functions from column to value
UpdateMaps ==
    { (colName :> V("New Name")) @@ (colUpdatedAt :> V("TestTime")),
      (colCount :> Raw(sqlCountPlus)),
      (colCount :> Raw(sqlCountPlus)) @@ (colName :> V("n")) }

\* the orders in which a range loop may visit the keys of a map
RECURSIVE Orders(_)
Orders(keys) ==
    IF keys = {} THEN { <<>> }
    ELSE UNION { { <<k>> \o o : o \in Orders(keys \ {k}) } : k \in keys }

TxHandles == { NoTx, "tx1" }

\* a call as the history records it: its name, its inputs, and the number
\* of fragments the builder held when it was made
Call(op, str, list, updates, order) ==
    [op |-> op, str |-> str, list |-> list, updates |-> updates,
     order |-> order, at |-> Len(b.parts)]

----------------------------------------------------------------------------
(* The specification: any sequence of at most MaxCalls calls on New() *)

\* nothing started, allocated, begun or executed
InitOthers ==
    /\ thr = <<>>
    /\ heap = [arrs |-> <<>>, cur |-> 0, stmtArr |-> 0, stmtLen |-> 0]
    /\ raw = <<>>
    /\ txn = <<>>
    /\ log = <<>>
    /\ ret = <<>>

Init ==
    /\ b = New
    /\ pool = <<>>
    /\ rendered = <<>>
    /\ stmt = <<>>
    /\ err = "nil"
    /\ trace = <<>>
    /\ conv = <<>>
    /\ InitOthers

CanCall == Len(trace) < MaxCalls

\* a call that changes the builder only
Mutate(nb, call) ==
    /\ CanCall
    /\ b' = nb
    /\ trace' = Append(trace, call)
    /\ UNCHANGED <<pool, rendered, stmt, err, conv, others>>

DoWithTransaction ==
    \E tx \in TxHandles :
        Mutate(WithTransaction(b, tx), Call("WithTransaction", tx, <<>>, <<>>, <<>>))

DoSelect ==
    \E columns \in ColumnLists :
        Mutate(Select(b, columns), Call("Select", <<>>, columns, <<>>, <<>>))

DoFrom ==
    Mutate(From(b, tblUsers), Call("From", tblUsers, <<>>, <<>>, <<>>))

DoWhere ==
    \E in \in WhereInputs :
        Mutate(Where(b, in.cond, in.args), Call("Where", in.cond, in.args, <<>>, <<>>))

DoAndWhere ==
    \E in \in AndWhereInputs :
        Mutate(AndWhere(b, in.cond, in.args), Call("AndWhere", in.cond, in.args, <<>>, <<>>))

DoOrWhere ==
    \E in \in OrWhereInputs :
        Mutate(OrWhere(b, in.cond, in.args), Call("OrWhere", in.cond, in.args, <<>>, <<>>))

DoOrderBy ==
    Mutate(OrderBy(b, <<colCreatedDesc>>), Call("OrderBy", <<>>, <<colCreatedDesc>>, <<>>, <<>>))

DoUpdate ==
    Mutate(Update(b, tblUsers), Call("Update", tblUsers, <<>>, <<>>, <<>>))

DoSet ==
    \E updates \in UpdateMaps :
        \E order \in Orders(DOMAIN updates) :
            Mutate(Set(b, updates, order), Call("Set", <<>>, <<>>, updates, order))

DoInsert ==
    Mutate(Insert(b, tblUsers, <<colName, colEmail>>),
           Call("Insert", tblUsers, <<colName, colEmail>>, <<>>, <<>>))

DoValues ==
    \E values \in ValueLists :
        Mutate(Values(b, values), Call("Values", <<>>, values, <<>>, <<>>))

DoDelete ==
    Mutate(Delete(b, tblUsers), Call("Delete", tblUsers, <<>>, <<>>, <<>>))

DoReturning ==
    \E columns \in ReturningLists :
        Mutate(Returning(b, columns), Call("Returning", <<>>, columns, <<>>, <<>>))

DoString ==
    /\ CanCall
    /\ \E sb \in PoolGet(pool) :
          /\ rendered' = String(b, sb)
          /\ pool' = PoolPut(String(b, sb))
    /\ trace' = Append(trace, Call("String", <<>>, <<>>, <<>>, <<>>))
    /\ UNCHANGED <<b, stmt, err, conv, others>>

DoPrepare ==
    /\ CanCall
    /\ \E sb \in PoolGet(pool) :
          /\ stmt' = <<Prepare(b, sb, "db1")>>
          /\ pool' = PoolPut(String(b, sb))
    /\ err' = "nil"
    /\ trace' = Append(trace, Call("Prepare", <<>>, <<>>, <<>>, <<>>))
    /\ UNCHANGED <<b, rendered, conv, others>>

Next ==
    \/ DoWithTransaction
    \/ DoSelect
    \/ DoFrom
    \/ DoWhere
    \/ DoAndWhere
    \/ DoOrWhere
    \/ DoOrderBy
    \/ DoUpdate
    \/ DoSet
    \/ DoInsert
    \/ DoValues
    \/ DoDelete
    \/ DoReturning
    \/ DoString
    \/ DoPrepare

Spec == Init /\ [][Next]_vars

----------------------------------------------------------------------------
(* Reading the history *)

WhereFamily == { "Where", "AndWhere", "OrWhere" }

\* the call gave as many values as its condition has '?' markers
Matched(call) ==
    call.op \in WhereFamily => CountMarks(call.str) = Len(call.list)

AllMatched == \A i \in 1..Len(trace) : Matched(trace[i])

\* the columns of a Set call whose values are not raw expressions, in the
\* order the range loop visited them
NonRaw(call) ==
    SelectSeq(call.order, LAMBDA col : ~IsSQLExpression(call.updates[col]))

\* the values a call supplies for the placeholders it generates, in the
\* order it generates them
SuppliedBy(call) ==
    IF call.op \in WhereFamily \cup { "Values" } THEN call.list
    ELSE IF call.op = "Set"
         THEN [k \in 1..Len(NonRaw(call)) |-> call.updates[NonRaw(call)[k]]]
         ELSE <<>>

\* the number of values supplied by the first n calls
RECURSIVE SuppliedBefore(_)
SuppliedBefore(n) ==
    IF n = 0 THEN 0
    ELSE SuppliedBefore(n - 1) + Len(SuppliedBy(trace[n]))

\* text occurs in s at position i
OccursAt(s, i, text) ==
    /\ i >= 1
    /\ i + Len(text) - 1 <= Len(s)
    /\ SubSeq(s, i, i + Len(text) - 1) = text

\* a SET fragment assigns placeholder $n to column col: it holds the item
\* "col = $n" after a space and before a comma or the end of the fragment
Assigns(fragment, col, n) ==
    LET item == <<" ">> \o col \o fmtEQARG \o FormatInt(n)
    IN  \E i \in 1..Len(fragment) :
            /\ OccursAt(fragment, i, item)
            /\ \/ i + Len(item) > Len(fragment)
               \/ fragment[i + Len(item)] = ","

----------------------------------------------------------------------------
(* C1: after any sequence of builder calls in which every Where, AndWhere  *)
(* and OrWhere call is given as many values as its condition has '?'       *)
(* markers, the argument list is as long as the placeholder counter.       *)

C1_LenArgsEqualsCounter ==
    AllMatched => Len(b.args) = b.argIndex

\* three matched calls, a Set and a Where among them, have generated
\* three or more placeholders
C1_Witness ==
    /\ AllMatched
    /\ Len(trace) = 3
    /\ b.argIndex >= 3
    /\ \E i \in 1..Len(trace) : trace[i].op = "Set"
    /\ \E i \in 1..Len(trace) : trace[i].op = "Where"

----------------------------------------------------------------------------
(* C2: when every call supplies as many values as it generates             *)
(* placeholders, entry K of the argument list is the value supplied for    *)
(* placeholder $K by the call that generated it, for every K up to the     *)
(* counter: the values of a Where, AndWhere, OrWhere or Values call in the *)
(* order given, and for Set, under every iteration order of the map, the   *)
(* value of the column that the SET fragment assigns $K to.                *)

C2_ArgsMatchPlaceholders ==
    AllMatched =>
        /\ SuppliedBefore(Len(trace)) = b.argIndex
        /\ Len(b.args) = b.argIndex
        /\ \A i \in 1..Len(trace) :
              LET call == trace[i]
                  base == SuppliedBefore(i - 1)
              IN  /\ \A k \in 1..Len(SuppliedBy(call)) :
                        b.args[base + k] = SuppliedBy(call)[k]
                  /\ call.op = "Set" =>
                        \A col \in DOMAIN call.updates :
                            ~IsSQLExpression(call.updates[col]) =>
                                \E k \in 1..Len(SuppliedBy(call)) :
                                    /\ Assigns(b.parts[call.at + 1], col, base + k)
                                    /\ b.args[base + k] = call.updates[col]

\* a Set over two plain columns, visited in the order that is not the
\* order of the map literal, was made after other placeholders
C2_Witness ==
    /\ AllMatched
    /\ b.argIndex >= 4
    /\ \E i \in 2..Len(trace) :
          /\ trace[i].op = "Set"
          /\ trace[i].order = <<colUpdatedAt, colName>>
          /\ SuppliedBefore(i - 1) >= 1

----------------------------------------------------------------------------
(* Direct calls of convertPlaceholders: one call per behaviour, on a       *)
(* builder whose counter is anything up to MaxCounter.                     *)

ConvAlphabet == { "a", "?", "$", "1" }

\* the strings over ConvAlphabet of length at most MaxLen
Queries == UNION { [1..n -> ConvAlphabet] : n \in 0..MaxLen }

\* a builder that has generated c placeholders: New().Values(v1, ..., vc)
BuilderAt(c) ==
    IF c = 0 THEN New ELSE Values(New, [i \in 1..c |-> V("v")])

InitConv ==
    /\ \E c \in 0..MaxCounter : b = BuilderAt(c)
    /\ pool = <<>>
    /\ rendered = <<>>
    /\ stmt = <<>>
    /\ err = "nil"
    /\ trace = <<>>
    /\ conv = <<>>
    /\ InitOthers

\* b.convertPlaceholders(query), as TestPlaceholderConversion calls it
DoConvert ==
    /\ conv = <<>>
    /\ trace = <<>>
    /\ \E query \in Queries :
          LET r == convertPlaceholders(b.argIndex, query)
          IN  /\ conv' = <<[query |-> query, result |-> r.result]>>
              /\ b' = [b EXCEPT !.argIndex = r.argIndex]
    /\ UNCHANGED <<pool, rendered, stmt, err, trace, others>>

\* b.Where(query) with no values
DoWhereNoValues ==
    /\ conv = <<>>
    /\ trace = <<>>
    /\ \E query \in Queries :
          Mutate(Where(b, query, <<>>), Call("Where", query, <<>>, <<>>, <<>>))

NextConv ==
    \/ DoConvert
    \/ DoWhereNoValues

SpecConv == InitConv /\ [][NextConv]_vars

----------------------------------------------------------------------------
(* C3: convertPlaceholders on a string with M '?' characters, called when  *)
(* the counter is c, returns the string with the K-th '?' replaced by      *)
(* "$" and the decimal c+K and every other character in place, and leaves  *)
(* the counter at c+M; with M = 0 the string comes back as it is and the   *)
(* counter is unchanged, and so is the argument list of a Where call       *)
(* without values.                                                         *)

\* what character i of query becomes when the counter was c before the call
Converted(query, c, i) ==
    IF query[i] = "?"
    THEN <<"$">> \o FormatInt(c + CountMarks(SubSeq(query, 1, i)))
    ELSE <<query[i]>>

RECURSIVE ConvertedFrom(_, _, _)
ConvertedFrom(query, c, i) ==
    IF i > Len(query) THEN <<>>
    ELSE Converted(query, c, i) \o ConvertedFrom(query, c, i + 1)

C3_ConvertPlaceholders ==
    [][ /\ conv' # conv =>
              LET query == conv'[1].query
                  M == CountMarks(query)
              IN  /\ conv'[1].result = ConvertedFrom(query, b.argIndex, 1)
                  /\ b'.argIndex = b.argIndex + M
                  /\ M = 0 => conv'[1].result = query /\ b' = b
        /\ trace' # trace =>
              LET query == trace'[1].str
                  M == CountMarks(query)
              IN  /\ b'.parts[Len(b'.parts)] = ConvertedFrom(query, b.argIndex, 1)
                  /\ b'.argIndex = b.argIndex + M
                  /\ b'.args = b.args
                  /\ M = 0 => b'.parts[Len(b'.parts)] = query
      ]_vars

\* a direct call on a string with one marker and a "$1" of its own took
\* the counter from 9 to 10, writing a two-digit placeholder
C3_Witness ==
    /\ conv # <<>>
    /\ conv[1].query = <<"?", "$", "1">> \/ conv[1].query = <<"$", "1", "?">>
    /\ b.argIndex = 10

----------------------------------------------------------------------------
(* Reading the rendered text *)

DigitChars == { Digits[i] : i \in 1..Len(Digits) }

DigitValue(ch) == CHOOSE d \in 0..9 : Digits[d + 1] = ch

\* the text String() returns for the builder as it is
Text == String(b, <<>>)

\* the end of the run of digits that starts at position i of s (i - 1 when
\* there is no digit at i)
RECURSIVE DigitsEnd(_, _)
DigitsEnd(s, i) ==
    IF i <= Len(s) /\ s[i] \in DigitChars THEN DigitsEnd(s, i + 1) ELSE i - 1

\* the number written in decimal by s[from..to]
RECURSIVE DecimalValue(_, _, _)
DecimalValue(s, from, to) ==
    IF from > to THEN 0
    ELSE DecimalValue(s, from, to - 1) * 10 + DigitValue(s[to])

\* the numbers of the numbered placeholders of s from position i on, left
\* to right: a placeholder is a '$' and the digits that follow it
RECURSIVE PlaceholdersFrom(_, _)
PlaceholdersFrom(s, i) ==
    IF i > Len(s) THEN <<>>
    ELSE IF s[i] = "$" /\ DigitsEnd(s, i + 1) > i
         THEN <<DecimalValue(s, i + 1, DigitsEnd(s, i + 1))>>
                  \o PlaceholdersFrom(s, DigitsEnd(s, i + 1) + 1)
         ELSE PlaceholdersFrom(s, i + 1)

HasChar(s, ch) == \E i \in 1..Len(s) : s[i] = ch

Range(f) == { f[x] : x \in DOMAIN f }

\* the strings a call was given (its values are not strings)
StringInputs(call) ==
    IF call.op \in WhereFamily \cup { "From", "Update", "Delete" } THEN { call.str }
    ELSE IF call.op \in { "Select", "OrderBy", "Returning" } THEN Range(call.list)
    ELSE IF call.op = "Insert" THEN { call.str } \cup Range(call.list)
    ELSE IF call.op = "Set"
         THEN DOMAIN call.updates
              \cup { SQL(v) : v \in { w \in Range(call.updates) : IsSQLExpression(w) } }
         ELSE {}

NoDollarInputs ==
    \A i \in 1..Len(trace) : \A s \in StringInputs(trace[i]) : ~HasChar(s, "$")

\* a '?' of s is directly followed by a digit
DigitAfterMark(s) ==
    \E i \in 1..(Len(s) - 1) : s[i] = "?" /\ s[i + 1] \in DigitChars

NoDigitAfterMark ==
    \A i \in 1..Len(trace) :
        trace[i].op \in WhereFamily => ~DigitAfterMark(trace[i].str)

----------------------------------------------------------------------------
(* C4, as claimed: after any sequence of builder calls whose string inputs *)
(* hold no '$', the numbered placeholders of the rendered text, read left  *)
(* to right, are exactly $1, $2, ..., $N with N the counter.               *)

C4_PlaceholdersContiguous_Claimed ==
    NoDollarInputs =>
        PlaceholdersFrom(Text, 1) = [k \in 1..b.argIndex |-> k]

(* C4, amended: the same, for calls whose string inputs hold no '$' and    *)
(* whose conditions have no '?' directly followed by a digit.              *)

C4_PlaceholdersContiguous ==
    NoDollarInputs /\ NoDigitAfterMark =>
        PlaceholdersFrom(Text, 1) = [k \in 1..b.argIndex |-> k]

\* eleven placeholders, made by Values, Set or the Where family, are in the
\* text: the last two have two digits
C4_Witness ==
    /\ NoDollarInputs
    /\ NoDigitAfterMark
    /\ b.argIndex >= 11
    /\ \E i \in 1..Len(trace) : trace[i].op \in WhereFamily

----------------------------------------------------------------------------
(* C5: String() is a pure read: it leaves the builder (fragments,          *)
(* arguments, counter, table, transaction) as it was, the text it returns  *)
(* is the fragments joined by single spaces in insertion order, and a      *)
(* second String() right after it returns the same text.                   *)

LastOp(t) == IF Len(t) = 0 THEN "none" ELSE t[Len(t)].op

\* the step is a call of op
IsCall(op) == Len(trace') = Len(trace) + 1 /\ LastOp(trace') = op

\* the fragments from index i on, each after a single space
RECURSIVE SpaceJoined(_, _)
SpaceJoined(parts, i) ==
    IF i > Len(parts) THEN <<>>
    ELSE <<" ">> \o parts[i] \o SpaceJoined(parts, i + 1)

C5_StringPureRead ==
    [][ IsCall("String") =>
            /\ b' = b
            /\ rendered' = IF Len(b.parts) = 0 THEN <<>>
                           ELSE b.parts[1] \o SpaceJoined(b.parts, 2)
            /\ LastOp(trace) = "String" => rendered' = rendered
      ]_vars

\* String() was called twice in a row on a builder of two or more fragments
C5_Witness ==
    /\ Len(trace) >= 3
    /\ trace[Len(trace)].op = "String"
    /\ trace[Len(trace) - 1].op = "String"
    /\ Len(b.parts) >= 2
    /\ rendered = Text

----------------------------------------------------------------------------
(* C6: in Set, an entry whose value implements SQLExpression is emitted as *)
(* "col = " and the expression's SQL, and takes no placeholder and no      *)
(* argument: a Set call over r raw entries and p others raises the counter *)
(* and the length of the argument list by exactly p.                       *)

LastCall(t) == t[Len(t)]

\* a SET fragment assigns the literal text sql to column col
AssignsRaw(fragment, col, sql) ==
    LET item == <<" ">> \o col \o fmtEQ \o sql
    IN  \E i \in 1..Len(fragment) :
            /\ OccursAt(fragment, i, item)
            /\ \/ i + Len(item) > Len(fragment)
               \/ fragment[i + Len(item)] = ","

RawColumns(updates) == { col \in DOMAIN updates : IsSQLExpression(updates[col]) }

C6_SetRawTakesNoPlaceholder ==
    [][ IsCall("Set") =>
            LET updates == LastCall(trace').updates
                p == Cardinality(DOMAIN updates \ RawColumns(updates))
                fragment == b'.parts[Len(b'.parts)]
            IN  /\ b'.argIndex = b.argIndex + p
                /\ Len(b'.args) = Len(b.args) + p
                /\ Len(PlaceholdersFrom(fragment, 1)) = p
                /\ \A col \in RawColumns(updates) :
                      AssignsRaw(fragment, col, SQL(updates[col]))
      ]_vars

\* a Set over a raw entry and a plain one was made on a builder that had
\* generated placeholders before
C6_Witness ==
    /\ LastOp(trace) = "Set"
    /\ RawColumns(LastCall(trace).updates) # {}
    /\ RawColumns(LastCall(trace).updates) # DOMAIN LastCall(trace).updates
    /\ b.argIndex >= 2

----------------------------------------------------------------------------
(* C7: Values called with N values when the counter is c appends exactly   *)
(* one fragment, "VALUES ($c+1, ..., $c+N)", sets the counter to c+N and   *)
(* appends the N values to the end of the argument list in the order       *)
(* given.                                                                  *)

\* "$from, ..., $to"
RECURSIVE Numbered(_, _)
Numbered(from, to) ==
    IF from > to THEN <<>>
    ELSE <<"$">> \o FormatInt(from)
             \o (IF from < to THEN <<",", " ">> ELSE <<>>)
             \o Numbered(from + 1, to)

C7_ValuesAppends ==
    [][ IsCall("Values") =>
            LET values == LastCall(trace').list
                N == Len(values)
                c == b.argIndex
            IN  /\ b'.parts = Append(b.parts,
                                     fmtVALUES \o Numbered(c + 1, c + N) \o <<")">>)
                /\ b'.argIndex = c + N
                /\ b'.args = b.args \o values
      ]_vars

\* Values with five values was called when the counter was 5 or more, so
\* that it wrote placeholders of one and of two digits
C7_Witness ==
    /\ LastOp(trace) = "Values"
    /\ Len(LastCall(trace).list) = 5
    /\ b.argIndex >= 10
    /\ Len(b.args) = b.argIndex

----------------------------------------------------------------------------
(* C8: when Where is called two or more times in immediate succession, no  *)
(* duplicate WHERE keyword is inserted: the run of Where calls contributes *)
(* only one "WHERE" keyword fragment.                                      *)

\* the number of fragments the builder held after call j
PartsAfter(j) ==
    IF j < Len(trace) THEN trace[j + 1].at ELSE Len(b.parts)

\* calls i..j are all Where calls
WhereRun(i, j) == \A k \in i..j : trace[k].op = "Where"

\* the WHERE keyword fragments that calls i..j appended
KeywordsOf(i, j) ==
    { k \in (trace[i].at + 1)..PartsAfter(j) : b.parts[k] = kwWHERE }

C8_NoDuplicateWhere_Claimed ==
    \A i \in 1..Len(trace) : \A j \in (i + 1)..Len(trace) :
        WhereRun(i, j) => Cardinality(KeywordsOf(i, j)) <= 1

----------------------------------------------------------------------------
(* C9: Set over a map of several plain entries gives the same assignment   *)
(* order, placeholder numbers and argument order on every run: after       *)
(* Update("users").Set({name, updated_at}).Where("id = ?", 1) the text is  *)
(* "UPDATE users SET name = $1, updated_at = $2 WHERE id = $3" and the     *)
(* arguments are the name value, the updated_at value and 1.               *)

txtSimpleUpdate == <<"U", "P", "D", "A", "T", "E", " ", "u", "s", "e", "r", "s", " ", "S", "E", "T", " ", "n", "a", "m", "e", " ", "=", " ", "$", "1", ",", " ", "u", "p", "d", "a", "t", "e", "d", "_", "a", "t", " ", "=", " ", "$", "2", " ", "W", "H", "E", "R", "E", " ", "i", "d", " ", "=", " ", "$", "3">>

\* the calls made are those of the "Simple update" case of TestUpdate
IsSimpleUpdate ==
    /\ Len(trace) = 3
    /\ trace[1].op = "Update" /\ trace[1].str = tblUsers
    /\ trace[2].op = "Set"
    /\ DOMAIN trace[2].updates = { colName, colUpdatedAt }
    /\ trace[3].op = "Where" /\ trace[3].str = condId /\ trace[3].list = <<V("1")>>

C9_SetOrderDeterministic_Claimed ==
    IsSimpleUpdate =>
        /\ Text = txtSimpleUpdate
        /\ b.args = <<V("New Name"), V("TestTime"), V("1")>>

----------------------------------------------------------------------------
(* C10: no builder operation reports an error or rejects its input: a      *)
(* Where, AndWhere or OrWhere call whose number of values differs from its *)
(* number of '?' markers completes like any other, after it the counter    *)
(* and the length of the argument list differ by that mismatch more than   *)
(* before, and no later call, String() or Prepare detects or repairs it:   *)
(* Prepare returns a nil error and a Stmt with the text and the arguments  *)
(* as they are.                                                            *)

\* markers less values of a call
Mismatch(call) ==
    IF call.op \in WhereFamily THEN CountMarks(call.str) - Len(call.list) ELSE 0

RECURSIVE Drift(_)
Drift(n) ==
    IF n = 0 THEN 0 ELSE Drift(n - 1) + Mismatch(trace[n])

C10_MismatchNotDetected ==
    /\ b.argIndex - Len(b.args) = Drift(Len(trace))
    /\ err = "nil"
    /\ LastOp(trace) = "Prepare" =>
          /\ stmt[1].query = Text
          /\ stmt[1].args = b.args
    /\ LastOp(trace) = "String" => rendered = Text

\* a Stmt was prepared from a builder whose Where call got no value for
\* its marker
C10_Witness ==
    /\ LastOp(trace) = "Prepare"
    /\ Drift(Len(trace)) = 1
    /\ Len(stmt[1].args) < Len(PlaceholdersFrom(stmt[1].query, 1))
    /\ \E i \in 1..Len(trace) : trace[i].op = "Where" /\ ~Matched(trace[i])

----------------------------------------------------------------------------
(* C14: on a builder that holds fragments, Where appends a "WHERE" keyword *)
(* fragment before the rewritten condition if and only if the last         *)
(* fragment is not exactly the text "WHERE"; a last fragment that only     *)
(* ends in the characters WHERE, as Select("xWHERE") leaves, still gets    *)
(* the keyword.                                                            *)

colXWhere == <<"x", "W", "H", "E", "R", "E">>
tblElsewhere == <<"E", "L", "S", "E", "W", "H", "E", "R", "E">>
condEndsWhere == <<"p", " ", "=", " ", "?", " ", "O", "R", " ", "N", "O", "W", "H", "E", "R", "E">>

KeywordColumnLists == { <<colStar>>, <<colXWhere>> }

KeywordTables == { tblUsers, tblElsewhere }

KeywordWhereInputs ==
    { [cond |-> condId, args |-> <<V("1")>>],
      [cond |-> condEndsWhere, args |-> <<V("2")>>],
      [cond |-> kwWHERE, args |-> <<>>] }

DoSelectKeyword ==
    \E columns \in KeywordColumnLists :
        Mutate(Select(b, columns), Call("Select", <<>>, columns, <<>>, <<>>))

DoFromKeyword ==
    \E table \in KeywordTables :
        Mutate(From(b, table), Call("From", table, <<>>, <<>>, <<>>))

DoWhereKeyword ==
    \E in \in KeywordWhereInputs :
        Mutate(Where(b, in.cond, in.args), Call("Where", in.cond, in.args, <<>>, <<>>))

DoReturningKeyword ==
    Mutate(Returning(b, <<kwWHERE>>), Call("Returning", <<>>, <<kwWHERE>>, <<>>, <<>>))

NextKeyword ==
    \/ DoSelectKeyword
    \/ DoFromKeyword
    \/ DoWhereKeyword
    \/ DoReturningKeyword

\* calls whose fragments end in, or are, the text WHERE
SpecKeyword == Init /\ [][NextKeyword]_vars

\* call i appended the WHERE keyword fragment and then its condition
KeywordInserted(i) ==
    /\ PartsAfter(i) = trace[i].at + 2
    /\ b.parts[trace[i].at + 1] = kwWHERE

C14_KeywordUnlessExactlyWhere_Claimed ==
    \A i \in 1..Len(trace) :
        trace[i].op = "Where" /\ trace[i].at > 0 =>
            (KeywordInserted(i) <=> b.parts[trace[i].at] # kwWHERE)

----------------------------------------------------------------------------
(* C15: the argument list and the fragment sequence are append-only and    *)
(* the counter never decreases: over every builder operation the argument  *)
(* list before is a prefix of the one after, the fragment sequence before  *)
(* is a prefix of the one after, and the counter after is at least the     *)
(* counter before.                                                         *)

IsPrefix(s, t) ==
    /\ Len(s) <= Len(t)
    /\ SubSeq(t, 1, Len(s)) = s

C15_AppendOnly ==
    [][ /\ IsPrefix(b.args, b'.args)
        /\ IsPrefix(b.parts, b'.parts)
        /\ b'.argIndex >= b.argIndex
      ]_vars

\* a third call, a Select, Set or Values, was made on a builder that held
\* fragments and arguments
C15_Witness ==
    /\ Len(trace) = 3
    /\ LastOp(trace) \in { "Select", "Set", "Values" }
    /\ trace[3].at >= 2
    /\ Len(b.parts) > trace[3].at
    /\ Len(b.args) >= 3

----------------------------------------------------------------------------
(* Two goroutines call Where on one builder.  A call is the sequence of    *)
(* reads and writes of b.parts, b.argIndex and b.args that Where and       *)
(* convertPlaceholders make; each is a step of its own.  The caller either *)
(* serializes the calls ("serial": a call starts only when no other call   *)
(* is under way) or does not ("free").                                     *)

condStatus == <<"s", "t", "a", "t", "u", "s", " ", "=", " ", "?">>

Threads == { 1, 2 }

\* the call each goroutine makes: a condition with one '?' and one value
ThreadCalls ==
    <<[cond |-> condId, val |-> V("1")],
      [cond |-> condStatus, val |-> V("active")]>>

\* a goroutine that has not started its call
Idle == [pc |-> "start", p |-> <<>>, n |-> 0, text |-> <<>>, a |-> <<>>]

\* Where that appends the keyword whatever the last fragment is
NeedsKeyword_Always(parts) == TRUE

\* the test Where makes before it appends the keyword
NeedsKeyword(parts) ==
    Len(parts) > 0 /\ ~HasSuffix(parts[Len(parts)], kwWHERE)

\* the text convertPlaceholders writes for a condition with one '?' when
\* Sprintf reads the counter as n
ConvertedWith(condition, n) ==
    convertPlaceholders(n - 1, condition).result

InitRace ==
    /\ b \in { New, From(Select(New, <<colStar>>), tblUsers) }
    /\ \E mode \in { "free", "serial" } :
          thr = [mode |-> mode, b0 |-> b, th |-> [t \in Threads |-> Idle]]
    /\ pool = <<>>
    /\ rendered = <<>>
    /\ stmt = <<>>
    /\ err = "nil"
    /\ trace = <<>>
    /\ conv = <<>>
    /\ heap = [arrs |-> <<>>, cur |-> 0, stmtArr |-> 0, stmtLen |-> 0]
    /\ raw = <<>>
    /\ txn = <<>>
    /\ log = <<>>
    /\ ret = <<>>

MidCall(t) == thr.th[t].pc \notin { "start", "done" }

\* goroutine t may take its next step
MayStep(t) ==
    thr.mode = "serial" /\ thr.th[t].pc = "start" =>
        \A u \in Threads \ {t} : ~MidCall(u)

\* goroutine t goes on to pc with its locals as in loc; the builder
\* becomes nb
Step(t, pc, loc, nb) ==
    /\ thr' = [thr EXCEPT !.th[t] = [loc EXCEPT !.pc = pc]]
    /\ b' = nb
    /\ UNCHANGED <<pool, rendered, stmt, err, trace, conv, heap, raw, txn, log, ret>>

\* the condition of the if in Where
WhereCheck(t) ==
    /\ thr.th[t].pc = "start"
    /\ MayStep(t)
    /\ Step(t, IF NeedsKeyword(b.parts) THEN "kwRead" ELSE "incRead", thr.th[t], b)

\* append(b.parts, "WHERE"): the read of b.parts
WhereKeywordRead(t) ==
    /\ thr.th[t].pc = "kwRead"
    /\ Step(t, "kwWrite", [thr.th[t] EXCEPT !.p = b.parts], b)

\* b.parts = append(...): the write
WhereKeywordWrite(t) ==
    /\ thr.th[t].pc = "kwWrite"
    /\ Step(t, "incRead", thr.th[t], [b EXCEPT !.parts = Append(thr.th[t].p, kwWHERE)])

\* b.argIndex++: the read
ConvertIncRead(t) ==
    /\ thr.th[t].pc = "incRead"
    /\ Step(t, "incWrite", [thr.th[t] EXCEPT !.n = b.argIndex], b)

\* b.argIndex++: the write
ConvertIncWrite(t) ==
    /\ thr.th[t].pc = "incWrite"
    /\ Step(t, "format", thr.th[t], [b EXCEPT !.argIndex = thr.th[t].n + 1])

\* fmt.Sprintf("$%d", b.argIndex): the read of the counter, and the rest of
\* the loop, which touches nothing shared
ConvertFormat(t) ==
    /\ thr.th[t].pc = "format"
    /\ Step(t, "partsRead",
            [thr.th[t] EXCEPT !.text = ConvertedWith(ThreadCalls[t].cond, b.argIndex)], b)

\* append(b.parts, text): the read of b.parts
WherePartsRead(t) ==
    /\ thr.th[t].pc = "partsRead"
    /\ Step(t, "partsWrite", [thr.th[t] EXCEPT !.p = b.parts], b)

\* b.parts = append(...): the write
WherePartsWrite(t) ==
    /\ thr.th[t].pc = "partsWrite"
    /\ Step(t, "argsRead", thr.th[t],
            [b EXCEPT !.parts = Append(thr.th[t].p, thr.th[t].text)])

\* append(b.args, args...): the read of b.args
WhereArgsRead(t) ==
    /\ thr.th[t].pc = "argsRead"
    /\ Step(t, "argsWrite", [thr.th[t] EXCEPT !.a = b.args], b)

\* b.args = append(...): the write
WhereArgsWrite(t) ==
    /\ thr.th[t].pc = "argsWrite"
    /\ Step(t, "done", thr.th[t],
            [b EXCEPT !.args = Append(thr.th[t].a, ThreadCalls[t].val)])

NextRace ==
    \/ \E t \in Threads : WhereCheck(t)
    \/ \E t \in Threads : WhereKeywordRead(t)
    \/ \E t \in Threads : WhereKeywordWrite(t)
    \/ \E t \in Threads : ConvertIncRead(t)
    \/ \E t \in Threads : ConvertIncWrite(t)
    \/ \E t \in Threads : ConvertFormat(t)
    \/ \E t \in Threads : WherePartsRead(t)
    \/ \E t \in Threads : WherePartsWrite(t)
    \/ \E t \in Threads : WhereArgsRead(t)
    \/ \E t \in Threads : WhereArgsWrite(t)

SpecRace == InitRace /\ [][NextRace]_vars

----------------------------------------------------------------------------
(* C11: two goroutines that call Where (one '?', one value each) on one    *)
(* builder without serialization can end in a state that breaks the        *)
(* sequential invariants: a placeholder number issued twice, a fragment or *)
(* an argument lost, or a counter that differs from the number of          *)
(* arguments.  When the calls are serialized as whole operations, no such  *)
(* state is reached: the builder is what the calls give one after the      *)
(* other.                                                                  *)

Quiescent == \A t \in Threads : ~MidCall(t)

AllDone == \A t \in Threads : thr.th[t].pc = "done"

DoneThreads == { t \in Threads : thr.th[t].pc = "done" }

\* the builder after the calls of the goroutines of order, one after the
\* other, on bb
RECURSIVE WhereInOrder(_, _)
WhereInOrder(bb, order) ==
    IF Len(order) = 0 THEN bb
    ELSE WhereInOrder(Where(bb, ThreadCalls[order[1]].cond, <<ThreadCalls[order[1]].val>>),
                      Tail(order))

\* the sequential invariants after both calls: two placeholders, $1 and
\* $2, one in the fragment of each call, and the value of each call at the
\* index of its placeholder
SequentialInvariants ==
    /\ b.argIndex = thr.b0.argIndex + 2
    /\ Len(b.args) = b.argIndex
    /\ \E k \in [Threads -> 1..2] :
          /\ k[1] # k[2]
          /\ \A t \in Threads :
                /\ \E i \in 1..Len(b.parts) :
                      b.parts[i] = ConvertedWith(ThreadCalls[t].cond, k[t])
                /\ b.args[k[t]] = ThreadCalls[t].val

C11_SerializedCallsAreSequential ==
    thr.mode = "serial" /\ Quiescent =>
        /\ b \in { WhereInOrder(thr.b0, order) : order \in Orders(DoneThreads) }
        /\ AllDone => SequentialInvariants

\* without serialization both calls have returned and the sequential
\* invariants are broken: the counter is not the number of arguments
C11_Witness ==
    /\ thr.mode = "free"
    /\ AllDone
    /\ ~SequentialInvariants
    /\ b.argIndex # Len(b.args)

-----------------------------------------------------------------------------
(* Execution: prepared statements, raw queries and transactions against     *)
(* database/sql.  The collaborators, sql.DB and sql.Tx, are the environment: *)
(* every call made on them is recorded in log, and its result is chosen by  *)
(* the environment.                                                         *)

\* number of calls of a run of the execution specification
MaxExecSteps == 5

\* error values: nil is the empty chain; an error is the chain of its
\* messages, outermost first, so that errors.Unwrap is Tail
NoErr == <<>>
ErrNoRows == <<"sql: no rows in result set">>
ErrConnDone == <<"sql: connection is already closed">>
ErrPanic == <<"panic: nil pointer dereference">>

\* fmt.Errorf(msg + ": %v", err): the text only, the cause is lost
Errorf_Opaque(msg, e) == <<msg>>

\* fmt.Errorf(msg + ": %w", err): a new error wrapping err
Errorf(msg, e) == <<msg>> \o e

\* errors.Unwrap
Unwrap(e) == IF Len(e) > 1 THEN Tail(e) ELSE NoErr

msgBegin == "failed to begin transaction"
msgCommit == "failed to commit transaction"
msgRollback == "failed to rollback transaction"
msgCommitted == "transaction already committed"
msgRolledBack == "transaction already rolled back"

NoDb == "nil"

sqlInsertUser == <<"I", "N", "S", "E", "R", "T", " ", "I", "N", "T", "O", " ", "u", "s", "e", "r", "s", "(", "n", "a", "m", "e", ")", " ", "V", "A", "L", "U", "E", "S", "(", "$", "1", ")">>

\* ---- b.args in memory ----
\* heap.arrs are the backing arrays allocated for b.args, heap.cur the one
\* b.args points into (0: nil slice); the Stmt's args slice is the first
\* heap.stmtLen cells of array heap.stmtArr.

\* the zero value of an unused cell
ZeroCell == V("nil")

ArgsCap(hp) == IF hp.cur = 0 THEN 0 ELSE Len(hp.arrs[hp.cur])

MaxOf(x, y) == IF x > y THEN x ELSE y

\* capacities a growing append may allocate: what is needed, or double
GrowCaps(cap, need) == {need, MaxOf(need, 2 * cap)}

\* an append that, in place, writes from the last element on instead of
\* after it
AppendArgs_OverLast(hp, len, values, newcap) ==
    IF Len(values) = 0 THEN hp
    ELSE IF len + Len(values) <= ArgsCap(hp)
    THEN [hp EXCEPT !.arrs[hp.cur] =
             [i \in 1..Len(@) |->
                 IF i >= len /\ i < len + Len(values) THEN values[i - len + 1] ELSE @[i]]]
    ELSE [hp EXCEPT !.arrs = Append(@, [i \in 1..newcap |->
                                 IF i <= len THEN hp.arrs[hp.cur][i]
                                 ELSE IF i <= len + Len(values) THEN values[i - len]
                                 ELSE ZeroCell]),
                    !.cur = Len(hp.arrs) + 1]

\* b.args = append(b.args, values...), b.args having len elements: in place
\* when the capacity suffices, into a new array of capacity newcap otherwise
AppendArgs(hp, len, values, newcap) ==
    IF Len(values) = 0 THEN hp
    ELSE IF len + Len(values) <= ArgsCap(hp)
    THEN [hp EXCEPT !.arrs[hp.cur] =
             [i \in 1..Len(@) |->
                 IF i > len /\ i <= len + Len(values) THEN values[i - len] ELSE @[i]]]
    ELSE [hp EXCEPT !.arrs = Append(@, [i \in 1..newcap |->
                                 IF i <= len THEN hp.arrs[hp.cur][i]
                                 ELSE IF i <= len + Len(values) THEN values[i - len]
                                 ELSE ZeroCell]),
                    !.cur = Len(hp.arrs) + 1]

\* args: b.args in Prepare: the Stmt shares the array of b.args
StmtSlice(hp, len) == [hp EXCEPT !.stmtArr = hp.cur, !.stmtLen = len]

\* s.args as it is read when the Stmt runs
StmtArgs ==
    IF heap.stmtArr = 0 THEN <<>>
    ELSE SubSeq(heap.arrs[heap.stmtArr], 1, heap.stmtLen)

\* ---- Stmt ----

\* the collaborator a call is made on
OnDb(db) == [on |-> "db", handle |-> db]
OnTx(tx) == [on |-> "tx", handle |-> tx]

\* a Stmt that always runs on its database handle
StmtTarget_AlwaysDb(st) == OnDb(st.db)

\* if s.tx != nil { return s.tx.M(...) }; return s.db.M(...)
StmtTarget(st) == IF st.tx # NoTx THEN OnTx(st.tx) ELSE OnDb(st.db)

\* ---- RawQuery ----

\* b.Raw(sql, args...)
BuilderRaw(sql, args) == [sql |-> sql, args |-> args, db |-> NoDb, tx |-> NoTx]

WithDB(r, db) == [r EXCEPT !.db = db]

WithTx(r, tx) == [r EXCEPT !.tx = tx]

\* if r.tx != nil { return r.tx.M(...) }; return r.db.M(...)
RawTarget(r) == IF r.tx # NoTx THEN OnTx(r.tx) ELSE OnDb(r.db)

\* r.db.M(...) with r.db == nil dereferences a nil *sql.DB
RawPanics(r) == r.tx = NoTx /\ r.db = NoDb

\* ---- Transaction ----

\* BeginTx: e is the result of db.BeginTx
BeginTx(e) ==
    IF e # NoErr
    THEN [t |-> <<>>, ret |-> Errorf(msgBegin, e)]
    ELSE [t |-> <<[tx |-> "sqltx1", done |-> FALSE]>>, ret |-> NoErr]

\* a Commit that marks the transaction done whatever t.tx.Commit returned
Commit_AlwaysDone(t, e) ==
    IF t.done THEN [t |-> t, ret |-> <<msgCommitted>>]
    ELSE [t |-> [t EXCEPT !.done = TRUE],
          ret |-> IF e # NoErr THEN Errorf(msgCommit, e) ELSE NoErr]

\* Commit: e is the result of t.tx.Commit(), called only when not done
Commit(t, e) ==
    IF t.done THEN [t |-> t, ret |-> <<msgCommitted>>]
    ELSE IF e # NoErr THEN [t |-> t, ret |-> Errorf(msgCommit, e)]
    ELSE [t |-> [t EXCEPT !.done = TRUE], ret |-> NoErr]

\* Rollback: e is the result of t.tx.Rollback(), called only when not done
Rollback(t, e) ==
    IF t.done THEN [t |-> t, ret |-> <<msgRolledBack>>]
    ELSE IF e # NoErr THEN [t |-> t, ret |-> Errorf(msgRollback, e)]
    ELSE [t |-> [t EXCEPT !.done = TRUE], ret |-> NoErr]

\* ---- the calls ----

QueryOutcomes == {NoErr, ErrNoRows}
TxOutcomes == {NoErr, ErrConnDone}

\* a call made on a collaborator, as database/sql sees it
Entry(target, method, query, args, result) ==
    [on |-> target.on, handle |-> target.handle, method |-> method,
     query |-> query, args |-> args, result |-> result]

\* a panic ends the run
CanExec == Len(trace) < MaxExecSteps /\ ret # ErrPanic

Record(op, str) == trace' = Append(trace, Call(op, str, <<>>, <<>>, <<>>))

\* a builder call: the new arguments are appended to b.args in memory
ExecMutate(nb, op, str) ==
    /\ CanExec
    /\ b' = nb
    /\ \E newcap \in GrowCaps(ArgsCap(heap), Len(nb.args)) :
          heap' = AppendArgs(heap, Len(b.args),
                             SubSeq(nb.args, Len(b.args) + 1, Len(nb.args)), newcap)
    /\ Record(op, str)
    /\ UNCHANGED <<pool, rendered, stmt, err, conv, thr, raw, txn, log, ret>>

ExecValues == ExecMutate(Values(b, <<V("a"), V("b")>>), "Values", <<>>)

ExecWhere == ExecMutate(Where(b, condId, <<V("1")>>), "Where", condId)

\* WithTransaction(nil), or WithTransaction(tx) with the transaction begun
ExecWithTransaction ==
    \E tx \in {NoTx} \cup (IF txn # <<>> THEN {"tx1"} ELSE {}) :
        ExecMutate(WithTransaction(b, tx), "WithTransaction", tx)

ExecPrepare ==
    /\ CanExec
    /\ \E sb \in PoolGet(pool) :
          /\ stmt' = <<Prepare(b, sb, "db1")>>
          /\ pool' = PoolPut(String(b, sb))
    /\ heap' = StmtSlice(heap, Len(b.args))
    /\ err' = "nil"
    /\ Record("Prepare", b.tx)
    /\ UNCHANGED <<b, rendered, conv, thr, raw, txn, log, ret>>

\* s.Query / s.QueryRow / s.Exec: one call on the target, its result returned
StmtRun(method, outcomes) ==
    /\ CanExec
    /\ stmt # <<>>
    /\ \E e \in outcomes :
          /\ log' = Append(log, Entry(StmtTarget(stmt[1]), method,
                                      stmt[1].query, StmtArgs, e))
          /\ ret' = e
    /\ Record(method, "Stmt")
    /\ UNCHANGED <<b, pool, rendered, stmt, err, conv, thr, heap, raw, txn>>

StmtQuery == StmtRun("Query", QueryOutcomes)

\* QueryRow returns a *sql.Row and no error
StmtQueryRow == StmtRun("QueryRow", {NoErr})

StmtExec == StmtRun("Exec", QueryOutcomes)

\* b.Raw("INSERT INTO users(name) VALUES($1)", "zakirkun")
RawNew ==
    /\ CanExec
    /\ raw' = <<BuilderRaw(sqlInsertUser, <<V("zakirkun")>>)>>
    /\ ret' = NoErr
    /\ Record("Raw", <<>>)
    /\ UNCHANGED <<b, pool, rendered, stmt, err, conv, thr, heap, txn, log>>

RawWithDB ==
    /\ CanExec
    /\ raw # <<>>
    /\ raw' = <<WithDB(raw[1], "db1")>>
    /\ ret' = NoErr
    /\ Record("WithDB", "db1")
    /\ UNCHANGED <<b, pool, rendered, stmt, err, conv, thr, heap, txn, log>>

\* WithTx(nil), or WithTx(tx) with the *sql.Tx of the transaction begun
RawWithTx ==
    /\ CanExec
    /\ raw # <<>>
    /\ \E tx \in {NoTx} \cup (IF txn # <<>> THEN {txn[1].tx} ELSE {}) :
          /\ raw' = <<WithTx(raw[1], tx)>>
          /\ Record("WithTx", tx)
    /\ ret' = NoErr
    /\ UNCHANGED <<b, pool, rendered, stmt, err, conv, thr, heap, txn, log>>

\* r.Query / r.QueryRow / r.Exec: one call on the target, its result
\* returned; with neither a transaction nor a database the call panics
RawRun(method, outcomes) ==
    /\ CanExec
    /\ raw # <<>>
    /\ IF RawPanics(raw[1])
       THEN /\ ret' = ErrPanic
            /\ log' = log
       ELSE \E e \in outcomes :
               /\ log' = Append(log, Entry(RawTarget(raw[1]), method,
                                           raw[1].sql, raw[1].args, e))
               /\ ret' = e
    /\ Record(method, "RawQuery")
    /\ UNCHANGED <<b, pool, rendered, stmt, err, conv, thr, heap, raw, txn>>

RawQueryQuery == RawRun("Query", QueryOutcomes)

RawQueryQueryRow == RawRun("QueryRow", {NoErr})

RawQueryExec == RawRun("Exec", QueryOutcomes)

\* Begin(db): BeginTx(context.Background(), db, nil)
TxBegin ==
    /\ CanExec
    /\ txn = <<>>
    /\ \E e \in TxOutcomes :
          /\ log' = Append(log, Entry(OnDb("db1"), "BeginTx", <<>>, <<>>, e))
          /\ txn' = BeginTx(e).t
          /\ ret' = BeginTx(e).ret
    /\ Record("Begin", <<>>)
    /\ UNCHANGED <<b, pool, rendered, stmt, err, conv, thr, heap, raw>>

\* a call finishing the transaction: t.tx.Commit / t.tx.Rollback is called
\* only when the transaction is not done
TxFinish(method, e, r) ==
    /\ CanExec
    /\ log' = IF txn[1].done THEN log
              ELSE Append(log, Entry(OnTx(txn[1].tx), method, <<>>, <<>>, e))
    /\ txn' = <<r.t>>
    /\ ret' = r.ret
    /\ Record(method, "Transaction")
    /\ UNCHANGED <<b, pool, rendered, stmt, err, conv, thr, heap, raw>>

TxCommit ==
    /\ txn # <<>>
    /\ \E e \in (IF txn[1].done THEN {NoErr} ELSE TxOutcomes) :
          TxFinish("Commit", e, Commit(txn[1], e))

TxRollback ==
    /\ txn # <<>>
    /\ \E e \in (IF txn[1].done THEN {NoErr} ELSE TxOutcomes) :
          TxFinish("Rollback", e, Rollback(txn[1], e))

NextExec ==
    \/ ExecValues
    \/ ExecWhere
    \/ ExecWithTransaction
    \/ ExecPrepare
    \/ StmtQuery
    \/ StmtQueryRow
    \/ StmtExec
    \/ RawNew
    \/ RawWithDB
    \/ RawWithTx
    \/ RawQueryQuery
    \/ RawQueryQueryRow
    \/ RawQueryExec
    \/ TxBegin
    \/ TxCommit
    \/ TxRollback

SpecExec == Init /\ [][NextExec]_vars

\* b.args as the builder reads it from memory is the value of b.args
ArgsInMemory ==
    b.args = IF heap.cur = 0 THEN <<>>
             ELSE SubSeq(heap.arrs[heap.cur], 1, Len(b.args))

-----------------------------------------------------------------------------
(* Reading the execution history *)

\* the step is the call op of the receiver kind ("Stmt", "RawQuery",
\* "Transaction")
IsRun(kind, op) ==
    /\ IsCall(op)
    /\ LastCall(trace').str = kind

\* the step made exactly one call on a collaborator
OneCall == Len(log') = Len(log) + 1 /\ SubSeq(log', 1, Len(log)) = log

\* the call on a collaborator made by the step
Made == log'[Len(log')]

\* a Commit or Rollback of the underlying transaction has succeeded
Finished(lg) ==
    \E i \in 1..Len(lg) :
        /\ lg[i].on = "tx"
        /\ lg[i].method \in {"Commit", "Rollback"}
        /\ lg[i].result = NoErr

\* C16: a Transaction is finished at most once.  Once a Commit or Rollback
\* of the underlying transaction has succeeded, every Commit or Rollback
\* call returns an error and makes no call on the underlying transaction;
\* until then every Commit or Rollback call makes exactly one call, of the
\* same name, on the underlying transaction and returns nil exactly when
\* that call succeeds; done is set exactly when such a call has succeeded,
\* so a failed call leaves the transaction unfinished.
C16_FinishedAtMostOnce ==
    [][ \A op \in {"Commit", "Rollback"} :
           IsRun("Transaction", op) =>
              /\ IF Finished(log)
                 THEN /\ log' = log
                      /\ ret' # NoErr
                 ELSE /\ OneCall
                      /\ Made.on = "tx" /\ Made.handle = txn[1].tx
                      /\ Made.method = op
                      /\ ret' = NoErr <=> Made.result = NoErr
              /\ txn'[1].done <=> Finished(log')
              /\ txn'[1].tx = txn[1].tx ]_vars

\* a Commit fails, the next Commit succeeds, and the Rollback after it
\* returns an error without a third call on the underlying transaction
C16_Witness ==
    /\ LastOp(trace) = "Rollback"
    /\ ret = <<msgRolledBack>>
    /\ Len(log) = 3
    /\ log[2].method = "Commit" /\ log[2].result # NoErr
    /\ log[3].method = "Commit" /\ log[3].result = NoErr
    /\ txn[1].done

\* the index of the last call of op in the history, 0 when there is none
LastIndex(op) ==
    LET S == { i \in 1..Len(trace) : trace[i].op = op }
    IN  IF S = {} THEN 0 ELSE CHOOSE i \in S : \A j \in S : j <= i

\* the builder as it was when Prepare was last called: its transaction,
\* its fragments and its arguments
PreparedTx == trace[LastIndex("Prepare")].str
PreparedParts == SubSeq(b.parts, 1, trace[LastIndex("Prepare")].at)
PreparedArgs == SubSeq(b.args, 1, heap.stmtLen)

\* what the last WithTx / WithDB call on the RawQuery attached, nil when
\* there was no such call since Raw
RawAttached(op, none) ==
    IF LastIndex(op) > LastIndex("Raw") THEN trace[LastIndex(op)].str ELSE none

\* C12: execution routing.  Every Query, QueryRow and Exec of a Stmt makes
\* one call: on the transaction the builder had attached when Prepare was
\* called, and on db when it had none; the text passed is the text rendered
\* from the fragments at Prepare time and the arguments are the builder's
\* arguments at Prepare time, in order.  Every Query, QueryRow and Exec of a
\* RawQuery makes one call: on the transaction the last WithTx attached,
\* and on its db when there is none, with the stored text and arguments
\* (with neither a transaction nor a db it makes no call).
C12_ExecutionRouting ==
    [][ \A m \in {"Query", "QueryRow", "Exec"} :
           /\ IsRun("Stmt", m) =>
                 /\ OneCall
                 /\ Made = Entry(IF PreparedTx # NoTx THEN OnTx(SqlTx(PreparedTx))
                                 ELSE OnDb("db1"),
                                 m, Join(PreparedParts, <<" ">>), PreparedArgs, ret')
           /\ IsRun("RawQuery", m) =>
                 LET tx == RawAttached("WithTx", NoTx)
                     db == RawAttached("WithDB", NoDb)
                 IN  IF tx = NoTx /\ db = NoDb THEN log' = log
                     ELSE /\ OneCall
                          /\ Made = Entry(IF tx # NoTx THEN OnTx(tx) ELSE OnDb(db),
                                          m, sqlInsertUser, <<V("zakirkun")>>, ret') ]_vars

\* a transaction was begun and a Stmt prepared with it attached and with one
\* argument has run Exec on the transaction
C12_Witness ==
    /\ Len(trace) = MaxExecSteps
    /\ LastCall(trace).str = "Stmt"
    /\ LastCall(trace).op = "Exec"
    /\ log[Len(log)].on = "tx"
    /\ log[Len(log)].args = <<V("1")>>
    /\ log[1].method = "BeginTx"

\* the message a Transaction call puts before the error of the call it made
WrapMessage(method) ==
    IF method = "BeginTx" THEN msgBegin
    ELSE IF method = "Commit" THEN msgCommit
    ELSE msgRollback

\* C13 as claimed: every error returned by a collaborator is handed to the
\* caller as the identical value, by the Stmt and RawQuery calls and by
\* Begin, Commit and Rollback alike.
C13_ErrorsUnmodified_Claimed ==
    [][ Len(log') > Len(log) /\ Made.result # NoErr => ret' = Made.result ]_vars

\* C13: no call is retried (a step makes at most one call on a
\* collaborator); an error returned to Query or Exec of a Stmt or RawQuery
\* is returned to the caller as the identical value; an error returned to
\* Begin, Commit or Rollback is returned wrapped: the caller gets a new
\* error, "failed to begin/commit/rollback transaction", whose Unwrap is the
\* collaborator's error.
C13_ErrorsUnmodifiedOrWrapped ==
    [][ /\ log' = log \/ OneCall
        /\ Len(log') > Len(log) /\ Made.result # NoErr =>
              IF Made.method \in {"Query", "QueryRow", "Exec"}
              THEN ret' = Made.result
              ELSE /\ ret' # Made.result
                   /\ ret'[1] = WrapMessage(Made.method)
                   /\ Unwrap(ret') = Made.result ]_vars

\* an Exec of a RawQuery on the transaction has failed and its error was
\* returned, then the Commit failed and its error was returned wrapped
C13_Witness ==
    /\ Len(log) = 3
    /\ log[2].method = "Exec" /\ log[2].on = "tx" /\ log[2].result = ErrNoRows
    /\ log[3].method = "Commit" /\ log[3].result = ErrConnDone
    /\ ret = <<msgCommit>> \o ErrConnDone
    /\ LastOp(trace) = "Commit"

\* C17: a Stmt is a snapshot of the builder at Prepare time.  Prepare
\* leaves the builder's fragments, arguments and counter unchanged, returns
\* a nil error, and the Stmt it returns holds the text rendered from the
\* builder, the builder's arguments and its transaction's handle; no later
\* call other than Prepare changes the Stmt's text, the length or the
\* elements of its argument list as read from memory, or its transaction
\* handle.
C17_StmtIsSnapshot ==
    [][ /\ IsCall("Prepare") =>
              /\ b' = b
              /\ err' = "nil"
              /\ stmt'[1].query = Join(b.parts, <<" ">>)
              /\ stmt'[1].tx = SqlTx(b.tx)
              /\ StmtArgs' = b.args
        /\ stmt # <<>> /\ ~IsCall("Prepare") =>
              /\ stmt' = stmt
              /\ StmtArgs' = StmtArgs
        /\ stmt' # <<>> => StmtArgs' = stmt'[1].args ]_vars

\* after Prepare the builder appended an argument in place, into the array
\* the Stmt's argument list shares: the Stmt still has its three arguments
C17_Witness ==
    /\ stmt # <<>>
    /\ heap.stmtArr # 0
    /\ heap.cur = heap.stmtArr
    /\ heap.stmtLen = 3
    /\ Len(b.args) = 4
    /\ heap.arrs[heap.cur][4] = V("1")
    /\ StmtArgs = <<V("a"), V("b"), V("1")>>
    /\ LastOp(trace) = "Where"

====
